---- MODULE Spec2Model ----
(***************************************************************************)
(* SequentialBlockFile (Open Ephys RecordNode, BinaryFormat): a sliding    *)
(* window of fixed-size interleaved sample blocks in front of an           *)
(* append-only file.  The module models the constructor, openFile,         *)
(* writeChannel, allocateBlocks and the destructor of                      *)
(* SequentialBlockFile.cpp.  FileBlock and the juce containers are         *)
(* collaborators; what they do is written out where it is used.            *)
(***************************************************************************)
EXTENDS Integers, Sequences, FiniteSets, TLC

\* ---------------------------------------------------------------------
\* Construction parameters and bounds on the inputs
\* ---------------------------------------------------------------------
\* nChannels given to the constructor (m_nChannels)
NChannels == 2
\* largest samplesPerBlock given to the constructor
MaxSamplesPerBlock == 2
\* bound on startPos + nSamples of a writeChannel call
MaxPos == 4
\* bound on the number of blocks a call may leave resident
MaxBlocks == 3

Channels == 0 .. (NChannels - 1)

VARIABLES
    pc,                 \* lifecycle: constructed, opened, destroyed, crashed
    m_samplesPerBlock,  \* const int, set by the constructor
    m_file,             \* TRUE iff the output stream pointer is non-null
    m_memBlocks,        \* OwnedArray<FileBlock>: sequence of [offset, data]
    m_currentBlock,     \* Array<int>: per channel, last block index written
    m_lastBlockFill,    \* fill high-water mark of the tail block
    disk,               \* what the blocks have appended to the stream so far
    ret,                \* what the last call returned to its caller
    nextStart,          \* history: per channel, where its last call ended
    maxEnd,             \* history: largest startPos + nSamples written
    creates,            \* history: file.create() calls openFile has made
    appendFailed,       \* history: the stream refused a flush of the last call
    inflight,           \* a writeChannel call that another thread has begun
    lastPos             \* history: per channel, the last sample position of
                        \* its latest call that stored a sample; -1 if none

hist == <<nextStart, maxEnd, creates, appendFailed, inflight, lastPos>>
vars == <<pc, m_samplesPerBlock, m_file, m_memBlocks, m_currentBlock,
          m_lastBlockFill, disk, ret, nextStart, maxEnd, creates, appendFailed,
          inflight, lastPos>>

\* m_blockSize(nChannels*samplesPerBlock)
m_blockSize == NChannels * m_samplesPerBlock

\* ---------------------------------------------------------------------
\* The collaborators (juce and FileBlock)
\* ---------------------------------------------------------------------
\* juce::jmin
jmin(a, b) == IF a < b THEN a ELSE b

\* juce::jlimit (lowerLimit, upperLimit, value)
jlimit(lo, hi, v) == IF v < lo THEN lo ELSE IF hi < v THEN hi ELSE v

\* A fresh FileBlock: blockSize samples, all zero, tagged with its offset.
\* Position p of the C array is element p + 1 of data.
FileBlock(offset) == [offset |-> offset, data |-> [p \in 1 .. m_blockSize |-> 0]]

\* A FileBlock appends its whole buffer to the stream when the OwnedArray
\* deletes it
Flush(b) == [offset |-> b.offset, size |-> m_blockSize]

\* FileBlock::partialFlush(size) appends the first size samples only
PartialFlush(b, size) == [offset |-> b.offset, size |-> size]

\* OwnedArray::operator[]: element i, counted from 0
At(blocks, i) == blocks[i + 1]

\* The caller's buffer: nSamples values, distinct per channel and position
Marker(channel, pos) == 10 * (channel + 1) + pos

Data(startPos, channel, nSamples) ==
    [j \in 1 .. nSamples |-> Marker(channel, startPos + j - 1)]

\* No call is in flight on a second thread.  Otherwise inflight holds the
\* arguments of the call, how far it has come (stage "allocated": past line
\* 92, "located": past line 106), its local bIndex, and whether the array
\* has been shifted since bIndex was found.
Idle == [stage |-> "idle", startPos |-> 0, channel |-> 0, nSamples |-> 0,
         bIndex |-> 0, shifted |-> FALSE]

\* ---------------------------------------------------------------------
\* allocateBlocks
\* ---------------------------------------------------------------------
\* int compared with unsigned int: both operands are taken as 32-bit
\* unsigned values.  An int is kept here by its signed value, so a negative
\* one is the larger (0xFFFFFFFF is -1).
UnsignedLess(a, b) ==
    IF (a < 0) = (b < 0) THEN a < b ELSE b < 0

\* The search loop for the earliest unused block: the 32-bit pattern of
\* minBlock after channels 0 .. i-1 have been looked at.
RECURSIVE MinBlockUpTo(_, _)
MinBlockUpTo(cur, i) ==
    IF i = 0 THEN -1
    ELSE LET m == MinBlockUpTo(cur, i - 1)
         IN IF UnsignedLess(cur[i - 1], m) THEN cur[i - 1] ELSE m

MinBlock(cur) == MinBlockUpTo(cur, NChannels)

\* m_currentBlock.set(i, m_currentBlock[i] - minBlock): the difference is
\* taken modulo 2^32 and read back as an int; on the signed values this is
\* the plain difference as long as it fits 32 bits, which the bounds on the
\* positions guarantee.
ShiftCursors(cur, minBlock) == [i \in Channels |-> cur[i] - minBlock]

\* removeRange taking numberToRemove as the index of the last element to go
RemoveCount_Inclusive(blocks, numberToRemove) ==
    LET endIndex == jlimit(0, Len(blocks), 0 + numberToRemove + 1)
        startIndex == jlimit(0, Len(blocks), 0)
    IN IF endIndex - startIndex > 0 THEN endIndex - startIndex ELSE 0

\* OwnedArray::removeRange(0, numberToRemove): how many elements go
RemoveCount(blocks, numberToRemove) ==
    LET endIndex == jlimit(0, Len(blocks), 0 + numberToRemove)
        startIndex == jlimit(0, Len(blocks), 0)
    IN IF endIndex - startIndex > 0 THEN endIndex - startIndex ELSE 0

\* the allocation loop adding the block before it advances lastOffset
RECURSIVE NewBlocks_LateStep(_, _)
NewBlocks_LateStep(lastOffset, newBlocks) ==
    IF newBlocks <= 0 THEN << >>
    ELSE <<FileBlock(lastOffset)>>
             \o NewBlocks_LateStep(lastOffset + m_samplesPerBlock, newBlocks - 1)

\* the blocks appended by the allocation loop
RECURSIVE NewBlocks(_, _)
NewBlocks(lastOffset, newBlocks) ==
    IF newBlocks <= 0 THEN << >>
    ELSE <<FileBlock(lastOffset + m_samplesPerBlock)>>
             \o NewBlocks(lastOffset + m_samplesPerBlock, newBlocks - 1)

\* int newBlocks = (newSpaceNeeded + m_samplesPerBlock - 1) / m_samplesPerBlock
\* The uint64 differences wrap twice when startIndex lies beyond maxAddr and
\* cancel, so the value is the integer one whenever it is positive.
NewBlockCount(lastOffset, startIndex, numSamples) ==
    LET maxAddr == lastOffset + m_samplesPerBlock - 1
        newSpaceNeeded == numSamples - (maxAddr - startIndex)
    IN (newSpaceNeeded + m_samplesPerBlock - 1) \div m_samplesPerBlock

\* the allocation loop without the reset of m_lastBlockFill
AppendBlocks_NoReset(kept, cur2, fill, flushed, lastOffset, newBlocks) ==
    [crashed |-> FALSE,
     blocks |-> kept \o NewBlocks(lastOffset, newBlocks),
     cur |-> cur2,
     fill |-> fill,
     flushed |-> flushed]

\* the allocation loop and the reset of m_lastBlockFill that follows it
AppendBlocks(kept, cur2, fill, flushed, lastOffset, newBlocks) ==
    [crashed |-> FALSE,
     blocks |-> kept \o NewBlocks(lastOffset, newBlocks),
     cur |-> cur2,
     fill |-> IF newBlocks > 0 THEN 0 ELSE fill,
     flushed |-> flushed]

\* The tail of allocateBlocks, once the front blocks are gone: kept is what
\* is left of the array, cur2 the shifted cursors.
AllocateTail(kept, cur2, fill, flushed, startIndex, numSamples) ==
    IF Len(kept) = 0
    THEN [crashed |-> TRUE, blocks |-> kept, cur |-> cur2, fill |-> fill,
          flushed |-> flushed]
    ELSE AppendBlocks(kept, cur2, fill, flushed, kept[Len(kept)].offset,
                      NewBlockCount(kept[Len(kept)].offset, startIndex, numSamples))

\* The whole of allocateBlocks on (blocks, cursors, fill).
RemoveFront(blocks, cur, fill, minBlock, k, startIndex, numSamples) ==
    AllocateTail(SubSeq(blocks, k + 1, Len(blocks)),
                 ShiftCursors(cur, minBlock), fill,
                 [i \in 1 .. k |-> Flush(blocks[i])],
                 startIndex, numSamples)

AllocateBlocks(blocks, cur, fill, startIndex, numSamples) ==
    RemoveFront(blocks, cur, fill, MinBlock(cur),
                RemoveCount(blocks, MinBlock(cur)), startIndex, numSamples)

\* ---------------------------------------------------------------------
\* writeChannel
\* ---------------------------------------------------------------------
\* the condition with startPos alone, the length of the write left out
NeedsAllocation_StartOnly(blocks, startPos, nSamples) ==
    LET bIndex == Len(blocks) - 1
    IN \/ bIndex < 0
       \/ At(blocks, bIndex).offset + m_samplesPerBlock < startPos

\* the condition under which writeChannel calls allocateBlocks
NeedsAllocation(blocks, startPos, nSamples) ==
    LET bIndex == Len(blocks) - 1
    IN \/ bIndex < 0
       \/ At(blocks, bIndex).offset + m_samplesPerBlock < startPos + nSamples

\* the backward scan settling on the first block when it finds none
RECURSIVE FindBlock_Clamped(_, _, _)
FindBlock_Clamped(blocks, bIndex, startPos) ==
    IF bIndex < 0 THEN 0
    ELSE IF At(blocks, bIndex).offset <= startPos THEN bIndex
    ELSE FindBlock_Clamped(blocks, bIndex - 1, startPos)

\* the backward scan for the block holding startPos; -1 when none
RECURSIVE FindBlock(_, _, _)
FindBlock(blocks, bIndex, startPos) ==
    IF bIndex < 0 THEN -1
    ELSE IF At(blocks, bIndex).offset <= startPos THEN bIndex
    ELSE FindBlock(blocks, bIndex - 1, startPos)

\* the inner for loop without the channel in the address
CopyInto_NoChannel(blockData, startMemPos, channel, data, dataIdx, samplesToWrite) ==
    [p \in 1 .. m_blockSize |->
        IF \E i \in 0 .. (samplesToWrite - 1) :
               p - 1 = startMemPos + i * NChannels
        THEN LET i == CHOOSE i \in 0 .. (samplesToWrite - 1) :
                          p - 1 = startMemPos + i * NChannels
             IN data[dataIdx + i + 1]
        ELSE blockData[p]]

\* the inner for loop: samplesToWrite values of data, from dataIdx on, go
\* to blockPtr + startMemPos + channel + i*m_nChannels
CopyInto(blockData, startMemPos, channel, data, dataIdx, samplesToWrite) ==
    [p \in 1 .. m_blockSize |->
        IF \E i \in 0 .. (samplesToWrite - 1) :
               p - 1 = startMemPos + channel + i * NChannels
        THEN LET i == CHOOSE i \in 0 .. (samplesToWrite - 1) :
                          p - 1 = startMemPos + channel + i * NChannels
             IN data[dataIdx + i + 1]
        ELSE blockData[p]]

\* the update of the fill mark without the test for the last block
FillAfter_AnyBlock(fill, bIndex, lastBlockIdx, samplePos) ==
    IF samplePos > fill THEN samplePos ELSE fill

\* if (bIndex == lastBlockIdx && samplePos > m_lastBlockFill)
\*     m_lastBlockFill = samplePos;
FillAfter(fill, bIndex, lastBlockIdx, samplePos) ==
    IF bIndex = lastBlockIdx /\ samplePos > fill THEN samplePos ELSE fill

\* The while loop of writeChannel from the state st =
\* [blocks, bIndex, startIdx, startMemPos, writtenSamples, dataIdx, fill].
\* crashed is TRUE when the loop addresses a block that is not in the array
\* or a position outside the block's buffer.
RECURSIVE WriteLoop(_, _, _, _, _)
WriteLoop(st, channel, data, nSamples, lastBlockIdx) ==
    IF ~(st.writtenSamples < nSamples) THEN st
    ELSE IF st.bIndex >= Len(st.blocks) THEN [st EXCEPT !.crashed = TRUE]
    ELSE
      LET samplesToWrite == jmin(nSamples - st.writtenSamples,
                                 m_samplesPerBlock - st.startIdx)
          samplePos == st.startIdx + samplesToWrite
      IN IF samplesToWrite <= 0 \/ samplePos > m_samplesPerBlock
         THEN [st EXCEPT !.crashed = TRUE]
         ELSE WriteLoop(
                [st EXCEPT
                   !.blocks[st.bIndex + 1].data =
                       CopyInto(@, st.startMemPos, channel, data,
                                st.dataIdx, samplesToWrite),
                   !.dataIdx = @ + samplesToWrite,
                   !.writtenSamples = @ + samplesToWrite,
                   !.fill = FillAfter(@, st.bIndex, lastBlockIdx, samplePos),
                   !.startIdx = 0,
                   !.startMemPos = 0,
                   !.bIndex = @ + 1],
                channel, data, nSamples, lastBlockIdx)

Finish(alloc, done, channel) ==
    [crashed |-> done.crashed,
     blocks |-> done.blocks,
     cur |-> IF done.crashed THEN alloc.cur
             ELSE [alloc.cur EXCEPT ![channel] = done.bIndex - 1],
     fill |-> done.fill,
     flushed |-> alloc.flushed,
     ret |-> IF done.crashed THEN "none" ELSE "true"]

Located(alloc, bIndex, startIdx, startPos, channel, nSamples) ==
    Finish(alloc,
           WriteLoop([blocks |-> alloc.blocks, bIndex |-> bIndex,
                      startIdx |-> startIdx,
                      startMemPos |-> startIdx * NChannels,
                      writtenSamples |-> 0, dataIdx |-> 0,
                      fill |-> alloc.fill, crashed |-> FALSE],
                     channel, Data(startPos, channel, nSamples), nSamples,
                     Len(alloc.blocks) - 1),
           channel)

AfterScan(alloc, bIndex, startPos, channel, nSamples) ==
    IF bIndex < 0
    THEN alloc @@ [ret |-> "false"]
    ELSE Located(alloc, bIndex, startPos - At(alloc.blocks, bIndex).offset,
                 startPos, channel, nSamples)

AfterAlloc(alloc, startPos, channel, nSamples) ==
    IF alloc.crashed
    THEN alloc @@ [ret |-> "none"]
    ELSE AfterScan(alloc, FindBlock(alloc.blocks, Len(alloc.blocks) - 1, startPos),
                   startPos, channel, nSamples)

WriteOutcome(blocks0, cur0, fill0, startPos, channel, nSamples) ==
    AfterAlloc(IF NeedsAllocation(blocks0, startPos, nSamples)
               THEN AllocateBlocks(blocks0, cur0, fill0, startPos, nSamples)
               ELSE [crashed |-> FALSE, blocks |-> blocks0, cur |-> cur0,
                     fill |-> fill0, flushed |-> << >>],
               startPos, channel, nSamples)

\* writeChannel without its test of m_file
WriteChannelCall_NoFileTest(file, blocks0, cur0, fill0, startPos, channel, nSamples) ==
    WriteOutcome(blocks0, cur0, fill0, startPos, channel, nSamples)

\* writeChannel from its first line: if (!m_file) return false, before
\* anything else is looked at
WriteChannelCall(file, blocks0, cur0, fill0, startPos, channel, nSamples) ==
    IF ~file
    THEN [crashed |-> FALSE, blocks |-> blocks0, cur |-> cur0, fill |-> fill0,
          flushed |-> << >>, ret |-> "false"]
    ELSE WriteOutcome(blocks0, cur0, fill0, startPos, channel, nSamples)

\* ---------------------------------------------------------------------
\* The state machine
\* ---------------------------------------------------------------------
\* SequentialBlockFile::SequentialBlockFile
Init ==
    /\ pc = "constructed"
    /\ m_samplesPerBlock \in 1 .. MaxSamplesPerBlock
    /\ m_file = FALSE
    /\ m_memBlocks = << >>
    /\ m_currentBlock = [i \in Channels |-> -1]
    /\ m_lastBlockFill = 0
    /\ disk = << >>
    /\ ret = "none"
    /\ nextStart = [i \in Channels |-> 0]
    /\ maxEnd = 0
    /\ creates = 0
    /\ appendFailed = FALSE
    /\ inflight = Idle
    /\ lastPos = [i \in Channels |-> -1]

\* openFile adding the first block before it tests the stream
openFile_BlockFirst(streamOk) ==
    /\ pc = "constructed"
    /\ pc' = "opened"
    /\ m_file' = streamOk
    /\ m_memBlocks' = m_memBlocks \o <<FileBlock(0)>>
    /\ ret' = IF streamOk THEN "true" ELSE "false"
    /\ UNCHANGED <<m_samplesPerBlock, m_currentBlock, m_lastBlockFill, disk>>

\* The calls of file.create() in openFile: one, and after deleteFile() a
\* second one if the first failed.  The result of the second is not looked
\* at.
CreateCalls(firstCreated) == IF firstCreated THEN 1 ELSE 2

\* SequentialBlockFile::openFile: the stream is obtained or it is not.  The
\* object is opened once.
openFile(streamOk) ==
    /\ pc = "constructed"
    /\ pc' = "opened"
    /\ m_file' = streamOk
    /\ m_memBlocks' = IF streamOk THEN m_memBlocks \o <<FileBlock(0)>>
                      ELSE m_memBlocks
    /\ ret' = IF streamOk THEN "true" ELSE "false"
    /\ UNCHANGED <<m_samplesPerBlock, m_currentBlock, m_lastBlockFill, disk>>

\* SequentialBlockFile::writeChannel
writeChannel(startPos, channel, nSamples) ==
    /\ pc \in {"constructed", "opened"}
    /\ \E out \in {WriteChannelCall(m_file, m_memBlocks, m_currentBlock,
                                  m_lastBlockFill, startPos, channel, nSamples)} :
          /\ Len(out.blocks) <= MaxBlocks
          /\ pc' = IF out.crashed THEN "crashed" ELSE pc
          /\ m_memBlocks' = out.blocks
          /\ m_currentBlock' = out.cur
          /\ m_lastBlockFill' = out.fill
          /\ disk' = disk \o out.flushed
          /\ ret' = out.ret
    /\ UNCHANGED <<m_samplesPerBlock, m_file>>

\* writeChannel on a stream that may refuse what is appended to it: the
\* blocks removeRange deletes flush into the stream, and with appendOk FALSE
\* nothing of them arrives.  allocateBlocks is void and writeChannel looks at
\* nothing the deleted blocks leave behind, so the call goes on as it does
\* on a stream that takes the bytes.
writeChannelOnStream(startPos, channel, nSamples, appendOk) ==
    /\ pc \in {"constructed", "opened"}
    /\ \E out \in {WriteChannelCall(m_file, m_memBlocks, m_currentBlock,
                                  m_lastBlockFill, startPos, channel, nSamples)} :
          /\ Len(out.blocks) <= MaxBlocks
          /\ pc' = IF out.crashed THEN "crashed" ELSE pc
          /\ m_memBlocks' = out.blocks
          /\ m_currentBlock' = out.cur
          /\ m_lastBlockFill' = out.fill
          /\ disk' = IF appendOk THEN disk \o out.flushed ELSE disk
          /\ appendFailed' = (~appendOk /\ Len(out.flushed) > 0)
          /\ ret' = out.ret
    /\ UNCHANGED <<m_samplesPerBlock, m_file>>

\* the destructor flushing the last block before the others
Destructor_LastFirst ==
    /\ pc \in {"constructed", "opened"}
    /\ IF Len(m_memBlocks) = 0
       THEN /\ pc' = "crashed"
            /\ UNCHANGED <<m_memBlocks, disk>>
       ELSE /\ pc' = "destroyed"
            /\ m_memBlocks' = << >>
            /\ disk' = disk
                  \o <<PartialFlush(m_memBlocks[Len(m_memBlocks)],
                                    m_lastBlockFill * NChannels)>>
                  \o [i \in 1 .. (Len(m_memBlocks) - 1) |-> Flush(m_memBlocks[i])]
    /\ ret' = "none"
    /\ UNCHANGED <<m_samplesPerBlock, m_file, m_currentBlock, m_lastBlockFill>>

\* SequentialBlockFile::~SequentialBlockFile
Destructor ==
    /\ pc \in {"constructed", "opened"}
    /\ IF Len(m_memBlocks) = 0
       THEN \* m_memBlocks[0] of an empty array is null
            /\ pc' = "crashed"
            /\ UNCHANGED <<m_memBlocks, disk>>
       ELSE /\ pc' = "destroyed"
            /\ m_memBlocks' = << >>
            /\ disk' = disk
                  \o [i \in 1 .. (Len(m_memBlocks) - 1) |-> Flush(m_memBlocks[i])]
                  \o <<PartialFlush(m_memBlocks[Len(m_memBlocks)],
                                    m_lastBlockFill * NChannels)>>
    /\ ret' = "none"
    /\ UNCHANGED <<m_samplesPerBlock, m_file, m_currentBlock, m_lastBlockFill>>

\* the calls a caller may make
Inputs ==
    {in \in [startPos : 0 .. MaxPos, channel : Channels, nSamples : 0 .. MaxPos] :
        in.startPos + in.nSamples <= MaxPos}

Open == (\E streamOk \in BOOLEAN : openFile(streamOk)) /\ UNCHANGED hist

Write ==
    /\ \E in \in Inputs : writeChannel(in.startPos, in.channel, in.nSamples)
    /\ UNCHANGED hist

Close == Destructor /\ UNCHANGED hist

Next == Open \/ Write \/ Close

Spec == Init /\ [][Next]_vars

\* Callers whose channels each write at least one sample per call, every
\* call starting at or after the end of the channel's previous one (so the
\* startPos of a channel never decreases)
WriteInOrder ==
    \E in \in Inputs :
        /\ in.nSamples >= 1
        /\ in.startPos >= nextStart[in.channel]
        /\ writeChannel(in.startPos, in.channel, in.nSamples)
        /\ nextStart' = [nextStart EXCEPT ![in.channel] = in.startPos + in.nSamples]
        /\ UNCHANGED <<maxEnd, creates, appendFailed, inflight, lastPos>>

NextInOrder == Open \/ WriteInOrder \/ Close

SpecInOrder == Init /\ [][NextInOrder]_vars

\* Runs in which every writeChannel call has nSamples >= 1 and succeeds
WriteOk ==
    \E in \in Inputs :
        /\ in.nSamples >= 1
        /\ writeChannel(in.startPos, in.channel, in.nSamples)
        /\ ret' = "true"
        /\ maxEnd' = IF in.startPos + in.nSamples > maxEnd
                     THEN in.startPos + in.nSamples ELSE maxEnd
        /\ UNCHANGED <<nextStart, creates, appendFailed, inflight, lastPos>>

NextOk == Open \/ WriteOk \/ Close

SpecOk == Init /\ [][NextOk]_vars

\* openFile with its calls of file.create() counted: whether the first
\* create succeeds and whether the stream is obtained are for the file
\* system to decide
OpenCounted ==
    \E firstCreated, streamOk \in BOOLEAN :
        /\ openFile(streamOk)
        /\ creates' = creates + CreateCalls(firstCreated)
        /\ UNCHANGED <<nextStart, maxEnd, appendFailed, inflight, lastPos>>

NextCounted == OpenCounted \/ Write \/ Close

SpecCounted == Init /\ [][NextCounted]_vars

\* Runs on a stream whose appends may fail
WriteOnStream ==
    \E in \in Inputs : \E appendOk \in BOOLEAN :
        /\ writeChannelOnStream(in.startPos, in.channel, in.nSamples, appendOk)
        /\ UNCHANGED <<nextStart, maxEnd, creates, inflight, lastPos>>

NextOnStream == Open \/ WriteOnStream \/ Close

SpecOnStream == Init /\ [][NextOnStream]_vars

\* Two threads.  writeChannel and allocateBlocks take no lock and the
\* containers are not locking ones, so a call of one thread runs between the
\* statements of a call of the other.  Of all the interleavings the model
\* follows these: one call (inflight) is cut after line 92 and after line
\* 106, and whole calls for other channels run at the cuts.

\* lines 84-92 of the call in flight: the test of m_file and allocateBlocks
EnterCall(startPos, channel, nSamples) ==
    /\ pc = "opened" /\ m_file
    /\ inflight.stage = "idle"
    /\ \E alloc \in {IF NeedsAllocation(m_memBlocks, startPos, nSamples)
                      THEN AllocateBlocks(m_memBlocks, m_currentBlock,
                                          m_lastBlockFill, startPos, nSamples)
                      ELSE [crashed |-> FALSE, blocks |-> m_memBlocks,
                            cur |-> m_currentBlock, fill |-> m_lastBlockFill,
                            flushed |-> << >>]} :
          /\ Len(alloc.blocks) <= MaxBlocks
          /\ pc' = IF alloc.crashed THEN "crashed" ELSE pc
          /\ m_memBlocks' = alloc.blocks
          /\ m_currentBlock' = alloc.cur
          /\ m_lastBlockFill' = alloc.fill
          /\ disk' = disk \o alloc.flushed
    /\ inflight' = [stage |-> "allocated", startPos |-> startPos,
                    channel |-> channel, nSamples |-> nSamples,
                    bIndex |-> 0, shifted |-> FALSE]
    /\ UNCHANGED <<m_samplesPerBlock, m_file, ret>>

\* lines 94-106 of the call in flight: the backward scan
LocateCall ==
    /\ pc = "opened"
    /\ inflight.stage = "allocated"
    /\ \E b \in {FindBlock(m_memBlocks, Len(m_memBlocks) - 1, inflight.startPos)} :
          IF b < 0
          THEN ret' = "false" /\ inflight' = Idle
          ELSE /\ ret' = ret
               /\ inflight' = [inflight EXCEPT !.stage = "located", !.bIndex = b]
    /\ UNCHANGED <<pc, m_samplesPerBlock, m_file, m_memBlocks, m_currentBlock,
                   m_lastBlockFill, disk>>

\* lines 107-144 of the call in flight, with the bIndex it found.  When
\* m_memBlocks[bIndex] is no block, or startPos lies outside the block now at
\* bIndex, the copy reads or writes outside any buffer: the behaviour is
\* undefined and the model follows it no further.
CopyCall ==
    /\ pc = "opened"
    /\ inflight.stage = "located"
    /\ IF \/ inflight.bIndex >= Len(m_memBlocks)
          \/ inflight.startPos - At(m_memBlocks, inflight.bIndex).offset
                \notin 0 .. (m_samplesPerBlock - 1)
       THEN /\ pc' = "crashed"
            /\ ret' = "none"
            /\ UNCHANGED <<m_memBlocks, m_currentBlock, m_lastBlockFill>>
       ELSE \E out \in {Located([crashed |-> FALSE, blocks |-> m_memBlocks,
                                  cur |-> m_currentBlock,
                                  fill |-> m_lastBlockFill, flushed |-> << >>],
                                 inflight.bIndex,
                                 inflight.startPos
                                   - At(m_memBlocks, inflight.bIndex).offset,
                                 inflight.startPos, inflight.channel,
                                 inflight.nSamples)} :
               /\ pc' = IF out.crashed THEN "crashed" ELSE pc
               /\ m_memBlocks' = out.blocks
               /\ m_currentBlock' = out.cur
               /\ m_lastBlockFill' = out.fill
               /\ ret' = out.ret
    /\ inflight' = Idle
    /\ UNCHANGED <<m_samplesPerBlock, m_file, disk>>

\* a whole call of the other thread, for another channel than the call in
\* flight; if it removes blocks after the call in flight has found its
\* bIndex, the array has shifted under that bIndex
WriteBeside ==
    \E in \in Inputs :
        /\ inflight.stage = "idle" \/ in.channel # inflight.channel
        /\ writeChannel(in.startPos, in.channel, in.nSamples)
        /\ inflight' = [inflight EXCEPT
                           !.shifted = @ \/ (inflight.stage = "located"
                                              /\ Len(disk') > Len(disk))]
        /\ UNCHANGED <<nextStart, maxEnd, creates, appendFailed, lastPos>>

\* the call in flight writes one sample
Enter ==
    /\ \E in \in Inputs :
          in.nSamples = 1 /\ EnterCall(in.startPos, in.channel, in.nSamples)
    /\ UNCHANGED <<nextStart, maxEnd, creates, appendFailed, lastPos>>

Locate == LocateCall /\ UNCHANGED <<nextStart, maxEnd, creates, appendFailed, lastPos>>

Copy == CopyCall /\ UNCHANGED <<nextStart, maxEnd, creates, appendFailed, lastPos>>

\* teardown, which the callers run when no write is in flight
CloseIdle == inflight.stage = "idle" /\ Close

NextThreads == Open \/ Enter \/ Locate \/ Copy \/ WriteBeside \/ CloseIdle

SpecThreads == Init /\ [][NextThreads]_vars

\* Any calls, with the position of the last sample each channel has stored
\* kept beside the object
WriteTracked ==
    \E in \in Inputs :
        /\ writeChannel(in.startPos, in.channel, in.nSamples)
        /\ lastPos' = IF ret' = "true" /\ in.nSamples >= 1
                      THEN [lastPos EXCEPT
                              ![in.channel] = in.startPos + in.nSamples - 1]
                      ELSE lastPos
        /\ UNCHANGED <<nextStart, maxEnd, creates, appendFailed, inflight>>

NextTracked == Open \/ WriteTracked \/ Close

SpecTracked == Init /\ [][NextTracked]_vars

\* ---------------------------------------------------------------------
\* Notions the properties share
\* ---------------------------------------------------------------------
\* a write is being served on an open file
Serving == pc = "opened" /\ m_file

\* what writeChannel would leave behind if called now with in
Outcome(in) ==
    WriteOutcome(m_memBlocks, m_currentBlock, m_lastBlockFill,
                 in.startPos, in.channel, in.nSamples)

\* the blocks a step of writeChannel flushes and removes
Evicted == Len(disk') - Len(disk)

\* block b holds at least one sample of channel c
HasData(b, c) ==
    \E p \in 1 .. m_blockSize : (p - 1) % NChannels = c /\ b.data[p] # 0

\* sample s lies in block b
InBlock(b, s) == b.offset <= s /\ s < b.offset + m_samplesPerBlock

\* the buffer of the block of that offset in blocks, all zero if there is none
DataAt(blocks, offset) ==
    IF \E i \in 1 .. Len(blocks) : blocks[i].offset = offset
    THEN blocks[CHOOSE i \in 1 .. Len(blocks) : blocks[i].offset = offset].data
    ELSE [p \in 1 .. m_blockSize |-> 0]

\* ---------------------------------------------------------------------
\* C1
\* ---------------------------------------------------------------------
\* C1: a writeChannel step removes the blocks of relative index 0 .. k-1 only
\* if every channel's cursor, as it stands when allocateBlocks is entered, is
\* strictly greater than each of these indices.
EvictionSafety ==
    [][(Serving /\ pc' # "destroyed" /\ Evicted > 0)
          => \A c \in Channels : \A i \in 0 .. (Evicted - 1) :
                 m_currentBlock[c] > i]_vars

\* ---------------------------------------------------------------------
\* C2
\* ---------------------------------------------------------------------
\* C2: while some channel's cursor is still the sentinel -1, no writeChannel
\* step removes the block of offset 0.
SentinelKeepsBlockZero ==
    [][(/\ Serving /\ pc' = "opened"
        /\ \E c \in Channels : m_currentBlock[c] = -1
        /\ m_memBlocks[1].offset = 0)
          => m_memBlocks'[1].offset = 0]_vars

\* ---------------------------------------------------------------------
\* C3
\* ---------------------------------------------------------------------
\* C3: when every channel writes at least one sample per call at
\* non-decreasing startPos, no writeChannel call on the open file returns
\* false.
InOrderNeverFails == m_file => ret # "false"

\* ---------------------------------------------------------------------
\* C4
\* ---------------------------------------------------------------------
\* channel c has written into the block its cursor refers to
Holds(c) ==
    /\ m_currentBlock[c] \in 0 .. (Len(m_memBlocks) - 1)
    /\ HasData(At(m_memBlocks, m_currentBlock[c]), c)

\* after the call that leaves out, the cursor of c refers to the same block
StillHeld(out, c) ==
    /\ ~out.crashed
    /\ out.cur[c] \in 0 .. (Len(out.blocks) - 1)
    /\ At(out.blocks, out.cur[c]).offset
          = At(m_memBlocks, m_currentBlock[c]).offset

DiskInOffsetOrder ==
    \A k \in 1 .. Len(disk) : disk[k].offset = (k - 1) * m_samplesPerBlock

\* teardown has run after more blocks than fit the window were flushed, so
\* at least one was flushed by an eviction
DiskOrderWitness == pc = "destroyed" /\ Len(disk) > MaxBlocks

\* ---------------------------------------------------------------------
\* C6
\* ---------------------------------------------------------------------
\* C6: consecutive resident blocks are samplesPerBlock apart and the first
\* resident offset is a multiple of samplesPerBlock.
OffsetContiguity ==
    /\ \A i \in 1 .. (Len(m_memBlocks) - 1) :
          m_memBlocks[i + 1].offset = m_memBlocks[i].offset + m_samplesPerBlock
    /\ Len(m_memBlocks) > 0 => m_memBlocks[1].offset % m_samplesPerBlock = 0

\* a failed write on a window of three blocks whose front has been evicted
ContiguityWitness ==
    /\ Serving /\ ret = "false"
    /\ Len(m_memBlocks) = 3
    /\ m_memBlocks[1].offset > 0

\* ---------------------------------------------------------------------
\* C7
\* ---------------------------------------------------------------------
\* sample s of channel c is one the call in writes
Written(in, s, c) ==
    c = in.channel /\ in.startPos <= s /\ s < in.startPos + in.nSamples

\* every sample of the call is in out at its interleaved position
AllStored(out, in) ==
    \A j \in 0 .. (in.nSamples - 1) :
        \E i \in 1 .. Len(out.blocks) :
            /\ InBlock(out.blocks[i], in.startPos + j)
            /\ out.blocks[i].data[(in.startPos + j - out.blocks[i].offset)
                                     * NChannels + in.channel + 1]
                  = Data(in.startPos, in.channel, in.nSamples)[j + 1]

\* every other position of out is as it was before the call
OthersKept(out, in) ==
    \A i \in 1 .. Len(out.blocks) : \A p \in 1 .. m_blockSize :
        Written(in, out.blocks[i].offset + ((p - 1) \div NChannels),
                (p - 1) % NChannels)
        \/ out.blocks[i].data[p] = DataAt(m_memBlocks, out.blocks[i].offset)[p]

StoredRight(out, in) ==
    out.ret = "true" => AllStored(out, in) /\ OthersKept(out, in)

\* C7: a writeChannel call that returns true has stored data[j] at position
\* (s - offset) * nChannels + channel of the resident block holding
\* s = startPos + j, for every j, and has changed no other position.
InterleaveCorrectness ==
    Serving => \A in \in Inputs : StoredRight(Outcome(in), in)

\* a write of channel 1 that crossed a block boundary is in the window
InterleaveWitness ==
    /\ Serving /\ ret = "true" /\ m_samplesPerBlock = 2
    /\ \E i \in 1 .. (Len(m_memBlocks) - 1) :
          /\ m_memBlocks[i].data[4] = Marker(1, m_memBlocks[i].offset + 1)
          /\ m_memBlocks[i + 1].data[2] = Marker(1, m_memBlocks[i + 1].offset)
          /\ m_memBlocks[i].data[3] = 0

\* ---------------------------------------------------------------------
\* C8
\* ---------------------------------------------------------------------
RECURSIVE TotalSize(_)
TotalSize(d) == IF Len(d) = 0 THEN 0 ELSE d[1].size + TotalSize(Tail(d))

\* C8: after teardown of a run of successful writes of at least one sample
\* each, every flushed block but the last is whole, the last has the rows of
\* the fill mark, and the stream holds as many rows as the largest
\* startPos + nSamples written.
ShutdownTrimming ==
    pc = "destroyed" =>
      /\ \A k \in 1 .. (Len(disk) - 1) : disk[k].size = m_blockSize
      /\ disk[Len(disk)].size = m_lastBlockFill * NChannels
      /\ TotalSize(disk) = maxEnd * NChannels

\* teardown of a run whose last block was written in part only
TrimmingWitness ==
    /\ pc = "destroyed" /\ m_samplesPerBlock = 2
    /\ maxEnd = 3 /\ Len(disk) = 2
    /\ disk[2].size = NChannels

\* ---------------------------------------------------------------------
\* C9
\* ---------------------------------------------------------------------
\* no block of out holds anything the window did not hold before the call
NothingCopied(out) ==
    \A i \in 1 .. Len(out.blocks) :
        out.blocks[i].data = DataAt(m_memBlocks, out.blocks[i].offset)

Rejected(out) == out.ret = "false" /\ NothingCopied(out)

\* C9: a writeChannel call whose startPos is below the offset of the first
\* resident block returns false and copies no sample.
StaleWriteRejected ==
    Serving =>
      \A in \in Inputs :
        in.startPos < m_memBlocks[1].offset => Rejected(Outcome(in))

\* a write below the first resident offset has just returned false
StaleWriteWitness ==
    Serving /\ ret = "false" /\ m_memBlocks[1].offset > 0

\* ---------------------------------------------------------------------
\* C10
\* ---------------------------------------------------------------------
\* C10: a writeChannel call that returns false leaves the blocks, their
\* contents, the cursors, the fill mark and the stream as they were.
FailureIsAtomic ==
    [][(Serving /\ ret' = "false")
          => UNCHANGED <<m_memBlocks, m_currentBlock, m_lastBlockFill, disk>>]_vars

\* ---------------------------------------------------------------------
\* C11
\* ---------------------------------------------------------------------
\* what writeChannel would do if called now with in, m_file as it stands
Call(in) ==
    WriteChannelCall(m_file, m_memBlocks, m_currentBlock, m_lastBlockFill,
                     in.startPos, in.channel, in.nSamples)

\* the call returned false, appended nothing to the stream, left the window
\* without a block and left the cursors and the fill mark alone
FailsFast(out) ==
    /\ out.ret = "false" /\ ~out.crashed
    /\ out.flushed = << >>
    /\ out.blocks = m_memBlocks /\ Len(out.blocks) = 0
    /\ out.cur = m_currentBlock
    /\ out.fill = m_lastBlockFill

\* C11: while openFile has not succeeded (never called, or returned false),
\* every writeChannel call returns false, writes nothing to the stream,
\* allocates no block and changes no cursor.
WriteBeforeOpenFailsFast ==
    (pc \in {"constructed", "opened"} /\ ~m_file)
       => \A in \in Inputs : FailsFast(Call(in))

\* writeChannel has been called before openFile and has returned false
WriteBeforeOpenWitness ==
    pc = "constructed" /\ ~m_file /\ ret = "false"

\* ---------------------------------------------------------------------
\* C12
\* ---------------------------------------------------------------------
\* C12: openFile calls file.create() once or twice; it returns true exactly
\* when the stream was obtained, and then the window is the single block of
\* offset 0; when it returns false the window has no block.
OpenFileOutcome ==
    [][(pc = "constructed" /\ pc' = "opened")
          => /\ creates' \in 1 .. 2
             /\ (ret' = "true") = m_file'
             /\ ret' \in {"true", "false"}
             /\ m_file' => m_memBlocks' = <<FileBlock(0)>>
             /\ ~m_file' => m_memBlocks' = << >>]_vars

\* openFile has returned true after its second create()
OpenRetriedWitness ==
    /\ pc = "opened" /\ creates = 2 /\ m_file
    /\ Len(m_memBlocks) = 1 /\ m_memBlocks[1].offset = 0
    /\ \A c \in Channels : m_currentBlock[c] = -1

\* ---------------------------------------------------------------------
\* C13
\* ---------------------------------------------------------------------
\* C13: a writeChannel call during which the stream refused the flush of an
\* evicted block returns false.
AppendFailurePropagated ==
    (Serving /\ appendFailed) => ret = "false"

\* ---------------------------------------------------------------------
\* C14
\* ---------------------------------------------------------------------
\* C14: the steps of concurrent writeChannel calls for different channels do
\* not interleave: no call goes on to copy its samples with a block index it
\* found before the eviction of another call shifted the block array.
CallsDoNotInterleave ==
    [][(inflight.stage = "located" /\ inflight'.stage = "idle")
          => ~inflight.shifted]_vars

\* ---------------------------------------------------------------------
\* C15
\* ---------------------------------------------------------------------
\* the least number of blocks of samplesPerBlock samples that hold n samples
CeilBlocks(n) == (n + m_samplesPerBlock - 1) \div m_samplesPerBlock

\* by how far the call in ends beyond the end of the tail block
Shortfall(in) ==
    in.startPos + in.nSamples
       - (m_memBlocks[Len(m_memBlocks)].offset + m_samplesPerBlock)

\* the blocks the call that leaves out has appended
Appended(out) == Len(out.blocks) - (Len(m_memBlocks) - Len(out.flushed))

AppendsLeast(out, in) ==
    ~out.crashed => Appended(out) = CeilBlocks(Shortfall(in))

\* C15: a call that ends beyond the tail block makes allocateBlocks append
\* exactly ceil(shortfall / samplesPerBlock) blocks, also when the shortfall
\* is a multiple of samplesPerBlock.
MinimalAllocation ==
    Serving =>
      \A in \in Inputs :
        NeedsAllocation(m_memBlocks, in.startPos, in.nSamples)
           => AppendsLeast(Outcome(in), in)

\* ---------------------------------------------------------------------
\* C16
\* ---------------------------------------------------------------------
\* C16: for every channel that has stored at least one sample, the cursor is
\* an index into the window and the block at it holds the last sample
\* position of the channel's latest successful write of a sample.
CursorTracksLastBlock ==
    Serving =>
      \A c \in Channels : lastPos[c] >= 0 =>
        /\ m_currentBlock[c] \in 0 .. (Len(m_memBlocks) - 1)
        /\ InBlock(At(m_memBlocks, m_currentBlock[c]), lastPos[c])

\* ---------------------------------------------------------------------
\* C17
\* ---------------------------------------------------------------------
\* the rows of block b that hold a sample of some channel
UsedRows(b) ==
    {(p - 1) \div NChannels : p \in {q \in 1 .. m_blockSize : b.data[q] # 0}}

\* the largest in-block end position of the writes into b: one past the last
\* used row, 0 if nothing was written (every sample written is non-zero)
HighWater(b) ==
    IF UsedRows(b) = {} THEN 0
    ELSE 1 + CHOOSE r \in UsedRows(b) : \A q \in UsedRows(b) : q <= r

\* C17: the fill mark lies in 0 .. samplesPerBlock and is the largest
\* in-block end position of the writes into the block that is now the tail,
\* 0 if it has none: appending blocks resets it, and writes into other
\* blocks leave it alone.
FillIsHighWater ==
    Serving =>
      /\ m_lastBlockFill \in 0 .. m_samplesPerBlock
      /\ m_lastBlockFill = HighWater(m_memBlocks[Len(m_memBlocks)])

\* after an allocation the tail is written in part, and an earlier block
\* holds more rows than the fill mark says
FillWitness ==
    /\ Serving /\ m_samplesPerBlock = 2
    /\ Len(m_memBlocks) >= 2
    /\ m_lastBlockFill = 1
    /\ HighWater(m_memBlocks[1]) = 2

\* ---------------------------------------------------------------------
\* C18
\* ---------------------------------------------------------------------
\* C18: whatever startPos >= 0 and nSamples >= 0 a call is given, every
\* iteration of its copy loop addresses a block of the window and copies
\* into rows startIdx .. startIdx + samplesToWrite - 1 within
\* 0 .. samplesPerBlock - 1 (the loop of the model stops as crashed at the
\* first iteration that does not).
CopyStaysInWindow ==
    Serving => \A in \in Inputs : ~Outcome(in).crashed

\* a write of channel 0 that began in the second row of the only block and
\* ran on through a block appended for it
SpanningWriteWitness ==
    /\ Serving /\ ret = "true" /\ m_samplesPerBlock = 2
    /\ Len(m_memBlocks) = 3
    /\ m_memBlocks[1].offset = 0
    /\ m_memBlocks[1].data[1] = 0
    /\ m_memBlocks[1].data[3] = Marker(0, 1)
    /\ m_memBlocks[2].data[1] = Marker(0, 2)
    /\ m_memBlocks[2].data[3] = Marker(0, 3)

\* ---------------------------------------------------------------------
\* C19
\* ---------------------------------------------------------------------
\* the cursor of c, which was on a block of the window, is after the call
\* on a block of the window that is not an earlier one
CursorNotLowered(out, c) ==
    /\ out.cur[c] \in 0 .. (Len(out.blocks) - 1)
    /\ At(out.blocks, out.cur[c]).offset
          >= At(m_memBlocks, m_currentBlock[c]).offset

\* C19: a writeChannel call with nSamples = 0 that returns true leaves the
\* cursor of its channel no lower than it was: a cursor that was on a block
\* is not moved to an earlier block, below 0 or to the sentinel -1.
ZeroLengthKeepsCursor ==
    Serving =>
      \A in \in Inputs :
        (/\ in.nSamples = 0
         /\ m_currentBlock[in.channel] \in 0 .. (Len(m_memBlocks) - 1)
         /\ Outcome(in).ret = "true")
           => CursorNotLowered(Outcome(in), in.channel)

\* ---------------------------------------------------------------------
\* C20
\* ---------------------------------------------------------------------
\* C20: in every state from which the destructor can run, openFile called
\* or not, successful or not, the window holds a block for the final
\* partialFlush (so also in every state after a successful openFile: no
\* eviction removes the tail).
TeardownHasBlock ==
    pc \in {"constructed", "opened"} => Len(m_memBlocks) >= 1

====
